---- MODULE Spec2Model ----
(***************************************************************************)
(* Model of src/tpys.py: the per-image compression job                     *)
(* (ImageCompressorCore) and the thread-pool batch driver                  *)
(* (ImageCompressorUI.thread_pool_run / wrapper).                          *)
(*                                                                         *)
(* The specifications share the variables:                                 *)
(*   Spec        the batch driver: main thread, worker pool, counters;     *)
(*   SpecLive    the batch driver with fair scheduling of its threads;     *)
(*   SpecStop    the batch driver and the window's close handler;          *)
(*   SpecJob     one run of process_single_image on a small filesystem;    *)
(*   SpecRerun   repeated runs of the job on the same path;                *)
(*   SpecLoop    the job with its thread always taking its next step;      *)
(*   SpecResize  the same job over a range of source dimensions;           *)
(*   SpecPair    two concurrent jobs on one filesystem;                    *)
(*   SpecSearch  one call of _binary_compress for an arbitrary encoder;    *)
(*   SpecMono    the same call for every non-decreasing encoder.           *)
(* Sizes are in KB as in the source (os.path.getsize(..) / 1024); the      *)
(* model uses whole numbers of KB.                                         *)
(***************************************************************************)
EXTENDS Integers, Sequences, FiniteSets, TLC

(***************************************************************************)
(* Program constants (ImageCompressorCore.__init__, _binary_compress,      *)
(* _safe_replace).                                                         *)
(***************************************************************************)
MIN_Q == 10
MAX_Q == 95
MIN_DIMENSION == 50
MAX_ATTEMPTS == 5
REPLACE_TRIES == 5
DELETE_TRIES == 3
CLEANUP_TRIES == 3
\* float('inf'): larger than every size, and not smaller than itself.
Inf == 1000000

(***************************************************************************)
(* Bounds of the model.                                                    *)
(***************************************************************************)
\* number of input paths of a batch is 1..MaxPaths
MaxPaths == 2
\* max_workers is 1..MaxWorkers
MaxWorkers == 2
\* source width and height are within DimSpread of MIN_DIMENSION
DimSpread == 20

\* target_size_kb values drawn by Init
Targets == {20}
\* sizes on disk of the source file, around the target
InitSizes == {20, 25}
\* sizes an encode can produce: within target, within the 5% tolerance,
\* above tolerance but below the larger source, above every source
EncSizes == {10, 21, 23, 30}
\* max_dimension values (0 = unlimited)
MaxDimensions == {0, 60}
\* decoded width and height of the source
StartDims == {<<70, 56>>, <<100, 100>>}
\* extensions of the input path
Exts == {"jpg", "jpeg", "png"}

Max(a, b) == IF a >= b THEN a ELSE b

(***************************************************************************)
(* Paths. A path is base + "." + ext followed by appended suffixes.        *)
(***************************************************************************)
File(b, e, s) == [base |-> b, ext |-> e, suf |-> s]

\* line 115: tmp_file = path + ".tmp"
TmpFile(p) == [p EXCEPT !.suf = Append(p.suf, "tmp")]

\* line 161: path + ".bak"
BakFile(p) == [p EXCEPT !.suf = Append(p.suf, "bak")]

\* line 194: os.path.splitext(path)[0] + '.jpg'  (the last extension of the
\* name is dropped: for an input path that is its ext)
OutPath(p) == IF p.suf = <<>> THEN File(p.base, "jpg", <<>>)
              ELSE [p EXCEPT !.suf = Append(SubSeq(p.suf, 1, Len(p.suf) - 1), "jpg")]

\* line 155: path.lower().endswith(('.jpg', '.jpeg'))
IsJpg(p) == IF p.suf = <<>> THEN p.ext \in {"jpg", "jpeg"}
            ELSE p.suf[Len(p.suf)] \in {"jpg", "jpeg"}

Files == {File("a", e, s) : e \in Exts, s \in {<<>>, <<"tmp">>, <<"bak">>}}

\* what a path holds on disk
Absent == [data |-> "absent", size |-> 0, ro |-> FALSE, w |-> 0, h |-> 0]
Content(d, s, r, w, h) == [data |-> d, size |-> s, ro |-> r, w |-> w, h |-> h]
NoImg == [w |-> 0, h |-> 0]

VARIABLES
    \* ---- one job (process_single_image) ----
    cfg,         \* ImageCompressorCore fields: target_size_kb, backup, auto_resize, max_dimension
    path,        \* the job's argument
    disk,        \* the filesystem: Files -> content
    disk0,       \* the filesystem as the job found it (history)
    pc,          \* position in process_single_image
    outcome,     \* exit path taken by the job
    init_s,      \* line 126
    img,         \* decoded image (dimensions)
    is_resized,  \* line 146/151
    curr_img,    \* line 168
    attempt,     \* the local 'attempt' of process_single_image (lines 169, 204, 227)
    fs,          \* line 174: final size returned by _binary_compress
    ok,          \* line 174: budget met
    enc,         \* behaviour of the JPEG encoder for this image
    \* ---- _binary_compress ----
    low, high, best_q, found_size,
    ceiling_kb,  \* argument of _binary_compress
    enc_q,       \* quality passed to the last img.save (0: none yet)
    \* ---- _safe_replace ----
    sr_attempt,
    \* ---- batch driver ----
    image_list,       \* number of paths of the batch
    max_workers,
    running,
    processed_count,
    failed_count,
    mpc,              \* position of thread_pool_run
    completed,        \* line 471
    submitted,        \* how many futures the submit loop has created
    job,              \* per future: state of wrapper
    reg,              \* per future: value of processed_count read by '+= 1'
    result,           \* per future: how process_single_image ended
    timedout,         \* per future: future.result(timeout=30) raised
    success, failed,  \* lines 486, 487
    \* ---- the finally block ----
    rm_failed,        \* how many os.remove(tmp_file) of lines 228-231 raised (history)
    \* ---- a deterministic encoder ----
    q_small, q_fit, q_near,   \* greatest qualities that encode to a given size
    \* ---- a second job running on the same filesystem ----
    path2,            \* its argument
    pc2               \* its position

jobVars == <<cfg, path, disk, disk0, pc, outcome, init_s, img, is_resized,
             curr_img, attempt, fs, ok, enc>>
searchVars == <<low, high, best_q, found_size, ceiling_kb, enc_q>>
batchVars == <<image_list, max_workers, running, processed_count, failed_count,
               mpc, completed, submitted, job, reg, result, timedout, success, failed>>
encVars == <<q_small, q_fit, q_near>>
pairVars == <<path2, pc2>>
auxVars == <<rm_failed, encVars, pairVars>>
vars == <<jobVars, searchVars, sr_attempt, batchVars, auxVars>>

tmp_file == TmpFile(path)
out_path == OutPath(path)
is_jpg == IsJpg(path)
Exists(f) == disk[f].data # "absent"


(***************************************************************************)
(* The JPEG encoder (PIL img.save + os.path.getsize), which the source     *)
(* does not define: the sizes one encode of image im at quality q may      *)
(* produce. Inf stands for a raised exception (lines 92-94, 109-111).      *)
(*   "any"   any size or a failure, independently at every call;           *)
(*   "big"   never within budget; "near" always within the 5% tolerance    *)
(*   but above the target; "fail" always raises;                           *)
(*   "fit"   non-decreasing in quality and in area;                        *)
(*   "mono"  a function of the quality alone, never failing and            *)
(*           non-decreasing: 10 KB up to quality q_small, 20 KB up to      *)
(*           q_fit, 21 KB up to q_near, 30 KB above.                       *)
(***************************************************************************)
Encoders == {"big", "fit", "near", "fail"}

MonoSize(q) ==
    IF q <= q_small THEN 10
    ELSE IF q <= q_fit THEN 20
    ELSE IF q <= q_near THEN 21
    ELSE 30

EncodeSizes(e, q, im) ==
    CASE e = "any"  -> EncSizes \cup {Inf}
      [] e = "mono" -> {MonoSize(q)}
      [] e = "big"  -> {30}
      [] e = "near" -> {21}
      [] e = "fail" -> {Inf}
      [] OTHER      -> {IF q <= 50 /\ im.w * im.h <= 6000 THEN 10 ELSE 30}

\* What img.save leaves at tmp_path: the encoded file, or after a failure
\* either the previous content (the file could not be opened) or a
\* truncated file.
SaveResults(s, im, old) ==
    IF s # Inf THEN {Content("enc", s, FALSE, im.w, im.h)}
    ELSE {old, Content("partial", 0, FALSE, 0, 0)}

(***************************************************************************)
(* process_single_image, lines 113-236                                     *)
(***************************************************************************)
\* an exit that returns without running the finally block
ToCleanup_bug(o) ==
    /\ outcome' = o
    /\ pc' = "done"
    /\ attempt' = 0

\* every exit of the try block runs the finally block (lines 221-236)
ToCleanup(o) ==
    /\ outcome' = o
    /\ pc' = "cleanup"
    /\ attempt' = 0

\* lines 119-122 and _clear_readonly, lines 28-36
clear_readonly ==
    /\ pc = "start"
    /\ IF Exists(path) /\ disk[path].ro
       THEN \/ /\ disk' = [disk EXCEPT ![path].ro = FALSE]     \* os.chmod(path, 0o666)
               /\ pc' = "getsize"
               /\ UNCHANGED <<outcome, attempt>>
            \/ /\ ToCleanup("perm_fail")                      \* chmod raised: return False
               /\ UNCHANGED disk
       ELSE /\ pc' = "getsize"
            /\ UNCHANGED <<disk, outcome, attempt>>
    /\ UNCHANGED <<cfg, path, disk0, init_s, img, is_resized, curr_img, fs, ok, enc,
                   searchVars, sr_attempt, batchVars, auxVars>>

\* lines 125-129
getsize ==
    /\ pc = "getsize"
    /\ IF Exists(path)
       THEN /\ init_s' = disk[path].size
            /\ pc' = "open"
            /\ UNCHANGED <<outcome, attempt>>
       ELSE /\ ToCleanup("read_fail")
            /\ UNCHANGED init_s
    /\ UNCHANGED <<cfg, path, disk, disk0, img, is_resized, curr_img, fs, ok, enc,
                   searchVars, sr_attempt, batchVars, auxVars>>

\* a decoder that accepts any file that exists
Decodable_bug(c) == c.data # "absent"

\* lines 133-135: Image.open(f) and img.load() succeed: the file is an
\* image, or a JPEG written by an earlier run
Decodable(c) == c.data \in {"image", "enc"}

\* lines 132-139
open_image ==
    /\ pc = "open"
    /\ IF Decodable(disk[path])
       THEN /\ img' = [w |-> disk[path].w, h |-> disk[path].h]
            /\ pc' = "convert"
            /\ UNCHANGED <<outcome, attempt>>
       ELSE /\ ToCleanup("open_fail")
            /\ UNCHANGED img
    /\ UNCHANGED <<cfg, path, disk, disk0, init_s, is_resized, curr_img, fs, ok, enc,
                   searchVars, sr_attempt, batchVars, auxVars>>

\* line 142 and _convert_to_rgb, lines 53-79: the dimensions are kept; the
\* fallback conversion of line 79 is outside any try and may raise into the
\* handler of lines 218-219.
convert_to_rgb ==
    /\ pc = "convert"
    /\ \/ /\ pc' = "resize"
          /\ UNCHANGED <<outcome, attempt>>
       \/ ToCleanup("exception")
    /\ UNCHANGED <<cfg, path, disk, disk0, init_s, img, is_resized, curr_img, fs, ok, enc,
                   searchVars, sr_attempt, batchVars, auxVars>>

\* lines 148-149: ratio = max_dimension / max(w, h); int(w * ratio)
Scaled(n, md, m) == (n * md) \div m

\* lines 145-152
limit_dimension ==
    /\ pc = "resize"
    /\ LET m == Max(img.w, img.h) IN
       IF cfg.max_dimension > 0 /\ m > cfg.max_dimension
       THEN /\ img' = [w |-> Scaled(img.w, cfg.max_dimension, m),
                       h |-> Scaled(img.h, cfg.max_dimension, m)]
            /\ is_resized' = TRUE
       ELSE /\ UNCHANGED img
            /\ is_resized' = FALSE
    /\ pc' = "skipcheck"
    /\ UNCHANGED <<cfg, path, disk, disk0, outcome, init_s, curr_img, attempt, fs, ok, enc,
                   searchVars, sr_attempt, batchVars, auxVars>>

\* the budget test made strict
AlreadyOk_bug == is_jpg /\ ~is_resized /\ init_s < cfg.target_size_kb

\* line 156
AlreadyOk == is_jpg /\ ~is_resized /\ init_s <= cfg.target_size_kb

\* lines 155-158
skip_check ==
    /\ pc = "skipcheck"
    /\ IF AlreadyOk
       THEN ToCleanup("skip")
       ELSE /\ pc' = "backup"
            /\ UNCHANGED <<outcome, attempt>>
    /\ UNCHANGED <<cfg, path, disk, disk0, init_s, img, is_resized, curr_img, fs, ok, enc,
                   searchVars, sr_attempt, batchVars, auxVars>>

\* a backup step that does not look for an existing backup
NeedBackup_bug == cfg.backup

\* line 161
NeedBackup == cfg.backup /\ ~Exists(BakFile(path))

\* lines 160-169. shutil.copy2 copies content and mode; when it raises, the
\* backup is missing or truncated (lines 164-165 only log). The behaviour of
\* the encoder for this image is drawn here, before its first use.
backup ==
    /\ pc = "backup"
    /\ IF NeedBackup
       THEN \E b \in {disk[path], Absent, Content("partial", 0, FALSE, 0, 0)} :
                disk' = [disk EXCEPT ![BakFile(path)] = b]
       ELSE UNCHANGED disk
    /\ curr_img' = img
    /\ attempt' = 0
    /\ enc' \in Encoders
    /\ pc' = "loop"
    /\ UNCHANGED <<cfg, path, disk0, outcome, init_s, img, is_resized, fs, ok,
                   searchVars, sr_attempt, batchVars, auxVars>>

\* line 173
Ceil == IF is_resized \/ ~is_jpg THEN Inf ELSE init_s

\* a loop without the attempt limit
LoopContinues_bug == TRUE

\* line 171: while attempt < self.MAX_ATTEMPTS
LoopContinues == attempt < MAX_ATTEMPTS

\* lines 171-174 and 83-85: the loop test, and the call of _binary_compress
loop_head ==
    /\ pc = "loop"
    /\ IF LoopContinues
       THEN /\ attempt' = attempt + 1
            /\ ceiling_kb' = Ceil
            /\ low' = MIN_Q
            /\ high' = MAX_Q
            /\ best_q' = MAX_Q
            /\ found_size' = Inf
            /\ pc' = "bc_loop"
            /\ UNCHANGED sr_attempt
       ELSE /\ pc' = "replace"
            /\ sr_attempt' = 0
            /\ UNCHANGED <<attempt, searchVars>>
    /\ UNCHANGED <<enc_q, cfg, path, disk, disk0, outcome, init_s, img, is_resized,
                   curr_img, fs, ok, enc, batchVars, auxVars>>

\* line 88
Mid(lo, hi) == (lo + hi) \div 2

\* lines 87-102: one iteration of the binary search
binary_compress_iter ==
    /\ pc = "bc_loop"
    /\ low <= high
    /\ LET mid == Mid(low, high) IN
       \E size \in EncodeSizes(enc, mid, curr_img) :
         /\ \E c \in SaveResults(size, curr_img, disk[tmp_file]) :
                disk' = [disk EXCEPT ![tmp_file] = c]
         /\ enc_q' = mid
         /\ IF size < found_size /\ size < ceiling_kb
            THEN found_size' = size /\ best_q' = mid
            ELSE UNCHANGED <<found_size, best_q>>
         /\ IF size > cfg.target_size_kb
            THEN high' = mid - 1 /\ UNCHANGED low
            ELSE low' = mid + 1 /\ UNCHANGED high
    /\ UNCHANGED <<ceiling_kb, cfg, path, disk0, pc, outcome, init_s, img, is_resized,
                   curr_img, attempt, fs, ok, enc, sr_attempt, batchVars, auxVars>>

\* the final encode without the floor
FinalQuality_bug(hi) == hi

\* the final encode at the lower bound the loop ended with (low = high + 1)
FinalQuality_low(hi) == Max(MIN_Q, hi + 1)

\* line 106: quality of the final encode
FinalQuality(hi) == Max(MIN_Q, hi)

\* a tolerance of 50% instead of 5%
WithinTolerance_bug(s, target) == s * 100 <= target * 150

\* line 108: final_s <= self.target_size_kb * 1.05
WithinTolerance(s, target) == s * 100 <= target * 105

\* lines 104-111: the final encode and the return value
binary_compress_final ==
    /\ pc = "bc_loop"
    /\ low > high
    /\ \E size \in EncodeSizes(enc, FinalQuality(high), curr_img) :
         /\ \E c \in SaveResults(size, curr_img, disk[tmp_file]) :
                disk' = [disk EXCEPT ![tmp_file] = c]
         /\ enc_q' = FinalQuality(high)
         /\ fs' = size
         /\ ok' = (size # Inf /\ WithinTolerance(size, cfg.target_size_kb))
    /\ pc' = "after_bc"
    /\ UNCHANGED <<low, high, best_q, found_size, ceiling_kb, cfg, path, disk0, outcome,
                   init_s, img, is_resized, curr_img, attempt, enc, sr_attempt, batchVars, auxVars>>

\* lines 183-184: int(size * RESIZE_STEP), RESIZE_STEP = 0.9
Downscale(n) == (n * 9) \div 10

\* the minimum checked on the width only
BelowMinimum_bug(nw, nh) == nw < MIN_DIMENSION

\* line 186
BelowMinimum(nw, nh) == nw < MIN_DIMENSION \/ nh < MIN_DIMENSION

\* lines 176-191: the rest of one iteration of the adaptive loop
loop_tail ==
    /\ pc = "after_bc"
    /\ LET nw == Downscale(curr_img.w)
           nh == Downscale(curr_img.h) IN
       IF ok \/ ~cfg.auto_resize \/ BelowMinimum(nw, nh)
       THEN /\ pc' = "replace"
            /\ sr_attempt' = 0
            /\ UNCHANGED curr_img
       ELSE /\ curr_img' = [w |-> nw, h |-> nh]
            /\ pc' = "loop"
            /\ UNCHANGED sr_attempt
    /\ UNCHANGED <<cfg, path, disk, disk0, outcome, init_s, img, is_resized, attempt,
                   fs, ok, enc, searchVars, batchVars, auxVars>>

(***************************************************************************)
(* _safe_replace(tmp_file, out_path), lines 38-51, called at line 197       *)
(***************************************************************************)
\* lines 46-51: the except branch of one try; after the last one the
\* function returns False and line 216 logs the failed save
ReplaceTryFailed ==
    IF sr_attempt + 1 < REPLACE_TRIES
    THEN /\ sr_attempt' = sr_attempt + 1
         /\ pc' = "replace"
         /\ UNCHANGED <<outcome, attempt>>
    ELSE /\ sr_attempt' = sr_attempt + 1
         /\ ToCleanup("replace_fail")

\* lines 42-43: if os.path.exists(dst): os.remove(dst)
safe_replace_remove ==
    /\ pc = "replace"
    /\ IF Exists(out_path)
       THEN \/ /\ disk' = [disk EXCEPT ![out_path] = Absent]
               /\ pc' = "sr_move"
               /\ UNCHANGED <<sr_attempt, outcome, attempt>>
            \/ /\ ReplaceTryFailed                     \* os.remove raised
               /\ UNCHANGED disk
       ELSE /\ pc' = "sr_move"
            /\ UNCHANGED <<disk, sr_attempt, outcome, attempt>>
    /\ UNCHANGED <<cfg, path, disk0, init_s, img, is_resized, curr_img, fs, ok, enc,
                   searchVars, batchVars, auxVars>>

\* lines 44-45: os.replace(src, dst); return True. It raises when src is
\* missing, and may raise on a file in use.
safe_replace_move ==
    /\ pc = "sr_move"
    /\ \/ /\ Exists(tmp_file)
          /\ disk' = [disk EXCEPT ![out_path] = disk[tmp_file], ![tmp_file] = Absent]
          /\ pc' = "delete"
          /\ outcome' = "replaced"
          /\ attempt' = 0
          /\ UNCHANGED sr_attempt
       \/ /\ ReplaceTryFailed
          /\ UNCHANGED disk
    /\ UNCHANGED <<cfg, path, disk0, init_s, img, is_resized, curr_img, fs, ok, enc,
                   searchVars, batchVars, auxVars>>

\* lines 198-214: after a successful replace, remove the original when it
\* is another file than the output; up to 3 tries, a try that finds no file
\* does nothing
delete_original ==
    /\ pc = "delete"
    /\ IF path # out_path /\ attempt < DELETE_TRIES
       THEN IF Exists(path)
            THEN \/ /\ disk' = [disk EXCEPT ![path] = Absent]  \* os.remove; break
                    /\ pc' = "cleanup"
                    /\ attempt' = 0
                 \/ /\ attempt' = attempt + 1                  \* os.remove raised
                    /\ UNCHANGED <<disk, pc>>
            ELSE /\ attempt' = attempt + 1
                 /\ UNCHANGED <<disk, pc>>
       ELSE /\ pc' = "cleanup"
            /\ attempt' = 0
            /\ UNCHANGED disk
    /\ UNCHANGED <<cfg, path, disk0, outcome, init_s, img, is_resized, curr_img, fs, ok,
                   enc, searchVars, sr_attempt, batchVars, auxVars>>

\* lines 221-236: the finally block; up to 3 tries to remove tmp_file
cleanup ==
    /\ pc = "cleanup"
    /\ IF attempt < CLEANUP_TRIES
       THEN IF Exists(tmp_file)
            THEN \/ /\ disk' = [disk EXCEPT ![tmp_file] = Absent]  \* os.remove; break
                    /\ pc' = "done"
                    /\ UNCHANGED <<attempt, rm_failed>>
                 \/ /\ attempt' = attempt + 1                      \* os.remove raised
                    /\ rm_failed' = rm_failed + 1
                    /\ UNCHANGED <<disk, pc>>
            ELSE /\ attempt' = attempt + 1
                 /\ UNCHANGED <<disk, pc, rm_failed>>
       ELSE /\ pc' = "done"
            /\ UNCHANGED <<disk, attempt, rm_failed>>
    /\ UNCHANGED <<cfg, path, disk0, outcome, init_s, img, is_resized, curr_img, fs, ok,
                   enc, searchVars, sr_attempt, batchVars, encVars, pairVars>>

(***************************************************************************)
(* Idle values of the parts a specification does not run.                  *)
(***************************************************************************)
BatchIdle ==
    /\ image_list = 0 /\ max_workers = 1 /\ running = FALSE
    /\ processed_count = 0 /\ failed_count = 0
    /\ mpc = "idle" /\ completed = 0 /\ submitted = 0
    /\ job = <<>> /\ reg = <<>> /\ result = <<>> /\ timedout = <<>>
    /\ success = 0 /\ failed = 0

SearchIdle ==
    /\ low = MIN_Q /\ high = MAX_Q /\ best_q = MAX_Q /\ found_size = Inf
    /\ ceiling_kb = Inf /\ enc_q = 0

\* no deterministic encoder, no second job, no removal failed yet
AuxIdle ==
    /\ rm_failed = 0
    /\ q_small = 0 /\ q_fit = 0 /\ q_near = 0
    /\ path2 = File("a", "jpg", <<>>) /\ pc2 = "idle"

(***************************************************************************)
(* SpecJob: one run of process_single_image(path) with the configuration   *)
(* of ImageCompressorCore.__init__ (lines 16-26) on a filesystem that may  *)
(* already hold an output file, a backup and a scratch file left by an      *)
(* earlier run (cleanup gives up after 3 failed removals, lines 227-233).  *)
(***************************************************************************)
Sources ==
    {Absent, Content("corrupt", 25, FALSE, 0, 0), Content("corrupt", 25, TRUE, 0, 0)}
    \cup {Content("image", s, r, d[1], d[2]) : s \in InitSizes, r \in BOOLEAN, d \in StartDims}

InitJob ==
    /\ cfg \in [target_size_kb : Targets, backup : BOOLEAN, auto_resize : BOOLEAN,
                max_dimension : MaxDimensions]
    /\ path \in {File("a", e, <<>>) : e \in Exts}
    /\ \E src \in Sources,
          out \in {Absent, Content("other", 30, FALSE, 0, 0)},
          bak \in {Absent, Content("oldbak", 30, FALSE, 0, 0)},
          tmp \in {Absent, Content("stale", 30, FALSE, 0, 0)} :
         disk = [f \in Files |->
                    IF f = path THEN src
                    ELSE IF f = OutPath(path) THEN out
                    ELSE IF f = BakFile(path) THEN bak
                    ELSE IF f = TmpFile(path) THEN tmp
                    ELSE Absent]
    /\ disk0 = disk
    /\ pc = "start"
    /\ outcome = "none"
    /\ init_s = 0
    /\ img = NoImg
    /\ is_resized = FALSE
    /\ curr_img = NoImg
    /\ attempt = 0
    /\ fs = 0
    /\ ok = FALSE
    /\ enc = "unset"
    /\ sr_attempt = 0
    /\ SearchIdle
    /\ BatchIdle
    /\ AuxIdle

NextJob ==
    \/ clear_readonly
    \/ getsize
    \/ open_image
    \/ convert_to_rgb
    \/ limit_dimension
    \/ skip_check
    \/ backup
    \/ loop_head
    \/ binary_compress_iter
    \/ binary_compress_final
    \/ loop_tail
    \/ safe_replace_remove
    \/ safe_replace_move
    \/ delete_original
    \/ cleanup

SpecJob == InitJob /\ [][NextJob]_vars

(***************************************************************************)
(* SpecRerun: process_single_image called again and again on the same      *)
(* path with backup enabled (start_work leaves image_list as it is, so     *)
(* the next batch processes the same paths, lines 418-450).                *)
(***************************************************************************)
\* lines 113-116: the next call starts with fresh locals on the filesystem
\* the previous call left
rerun ==
    /\ pc = "done"
    /\ pc' = "start"
    /\ disk0' = disk
    /\ outcome' = "none"
    /\ init_s' = 0
    /\ img' = NoImg
    /\ is_resized' = FALSE
    /\ curr_img' = NoImg
    /\ attempt' = 0
    /\ fs' = 0
    /\ ok' = FALSE
    /\ enc' = "unset"
    /\ sr_attempt' = 0
    /\ low' = MIN_Q /\ high' = MAX_Q /\ best_q' = MAX_Q /\ found_size' = Inf
    /\ ceiling_kb' = Inf /\ enc_q' = 0
    /\ rm_failed' = 0
    /\ UNCHANGED <<cfg, path, disk, batchVars, encVars, pairVars>>

InitRerun ==
    /\ InitJob
    /\ cfg.backup /\ ~cfg.auto_resize /\ cfg.max_dimension = 0

NextRerun ==
    \/ NextJob
    \/ rerun

SpecRerun == InitRerun /\ [][NextRerun]_vars

(***************************************************************************)
(* SpecLoop: one run of the job on a writable image with no other file     *)
(* present, in which the thread running it always takes its next step: no  *)
(* statement of process_single_image or _binary_compress waits for another *)
(* thread.                                                                 *)
(***************************************************************************)
InitLoop ==
    /\ InitJob
    /\ ~cfg.backup
    /\ disk[path].data = "image" /\ ~disk[path].ro
    /\ \A f \in Files \ {path} : disk[f] = Absent

SpecLoop == InitLoop /\ [][NextJob]_vars /\ WF_vars(NextJob)

(***************************************************************************)
(* SpecResize: the same job for every source width and height within      *)
(* DimSpread of MIN_DIMENSION, on a writable 25 KB source with no other    *)
(* file present.                                                           *)
(***************************************************************************)
DimRange == (MIN_DIMENSION - DimSpread)..(MIN_DIMENSION + DimSpread)

InitResize ==
    /\ cfg \in [target_size_kb : Targets, backup : {FALSE}, auto_resize : BOOLEAN,
                max_dimension : MaxDimensions]
    /\ path = File("a", "png", <<>>)
    /\ \E sw \in DimRange, sh \in DimRange :
         disk = [f \in Files |->
                    IF f = path THEN Content("image", 25, FALSE, sw, sh) ELSE Absent]
    /\ disk0 = disk
    /\ pc = "start"
    /\ outcome = "none"
    /\ init_s = 0
    /\ img = NoImg
    /\ is_resized = FALSE
    /\ curr_img = NoImg
    /\ attempt = 0
    /\ fs = 0
    /\ ok = FALSE
    /\ enc = "unset"
    /\ sr_attempt = 0
    /\ SearchIdle
    /\ BatchIdle
    /\ AuxIdle

SpecResize == InitResize /\ [][NextJob]_vars

(***************************************************************************)
(* SpecSearch: one call _binary_compress(img, tmp_path, ceiling_kb), as    *)
(* line 174 makes it for a source above the target, for an encoder that    *)
(* may return any size, or fail, at every call.                            *)
(***************************************************************************)
InitSearch ==
    /\ cfg \in [target_size_kb : Targets, backup : {FALSE}, auto_resize : {FALSE},
                max_dimension : {0}]
    /\ path = File("a", "jpg", <<>>)
    /\ curr_img \in {[w |-> d[1], h |-> d[2]] : d \in StartDims}
    /\ img = curr_img
    /\ init_s \in {s \in InitSizes : s > cfg.target_size_kb}
    /\ disk = [f \in Files |->
                 IF f = path THEN Content("image", init_s, FALSE, img.w, img.h)
                 ELSE Absent]
    /\ disk0 = disk
    /\ pc = "bc_loop"
    /\ outcome = "none"
    /\ is_resized = FALSE
    /\ attempt = 1
    /\ fs = 0
    /\ ok = FALSE
    /\ enc = "any"
    /\ sr_attempt = 0
    /\ low = MIN_Q /\ high = MAX_Q /\ best_q = MAX_Q /\ found_size = Inf
    /\ ceiling_kb \in {init_s, Inf}
    /\ enc_q = 0
    /\ BatchIdle
    /\ AuxIdle

NextSearch ==
    \/ binary_compress_iter
    \/ binary_compress_final

SpecSearch == InitSearch /\ [][NextSearch]_vars

(***************************************************************************)
(* SpecPair: two worker threads run process_single_image on two different  *)
(* valid paths of one directory (wrapper, lines 499-505, with              *)
(* max_workers >= 2). The first job is the one above; the second is the    *)
(* same code followed only through its filesystem operations, for a source *)
(* above the target, without backup and with no operation failing.         *)
(***************************************************************************)
jobLocals == <<cfg, path, disk0, pc, outcome, init_s, img, is_resized, curr_img,
               attempt, fs, ok, enc>>

Job2Unchanged ==
    UNCHANGED <<jobLocals, searchVars, sr_attempt, batchVars, rm_failed, encVars, path2>>

\* lines 119-139: permission check, getsize, Image.open
job2_open ==
    /\ pc2 = "start"
    /\ pc2' = IF Decodable(disk[path2]) THEN "encode" ELSE "abort"
    /\ UNCHANGED disk
    /\ Job2Unchanged

\* lines 167-191: the compression loop leaves an encoded file at tmp_file
job2_encode ==
    /\ pc2 = "encode"
    /\ \E s \in {10, 30} :
         disk' = [disk EXCEPT ![TmpFile(path2)] = Content("enc", s, FALSE, 70, 56)]
    /\ pc2' = "replace"
    /\ Job2Unchanged

\* lines 42-43: if os.path.exists(dst): os.remove(dst)
job2_remove_dst ==
    /\ pc2 = "replace"
    /\ disk' = [disk EXCEPT ![OutPath(path2)] = Absent]
    /\ pc2' = "move"
    /\ Job2Unchanged

\* lines 44-51, 197, 216: os.replace(src, dst), which raises on every try
\* when src is gone
job2_move ==
    /\ pc2 = "move"
    /\ IF Exists(TmpFile(path2))
       THEN /\ disk' = [disk EXCEPT ![OutPath(path2)] = disk[TmpFile(path2)],
                                    ![TmpFile(path2)] = Absent]
            /\ pc2' = "delete"
       ELSE /\ pc2' = "abort"
            /\ UNCHANGED disk
    /\ Job2Unchanged

\* lines 203-214
job2_delete_original ==
    /\ pc2 = "delete"
    /\ IF path2 # OutPath(path2) /\ Exists(path2)
       THEN disk' = [disk EXCEPT ![path2] = Absent]
       ELSE UNCHANGED disk
    /\ pc2' = "cleanup"
    /\ Job2Unchanged

\* lines 221-236, after an installed output ("cleanup") or a failure ("abort")
job2_cleanup ==
    /\ pc2 \in {"cleanup", "abort"}
    /\ disk' = [disk EXCEPT ![TmpFile(path2)] = Absent]
    /\ pc2' = IF pc2 = "cleanup" THEN "done" ELSE "aborted"
    /\ Job2Unchanged

InitPair ==
    /\ cfg = [target_size_kb |-> 20, backup |-> FALSE, auto_resize |-> FALSE,
              max_dimension |-> 0]
    /\ path \in {File("a", e, <<>>) : e \in Exts}
    /\ path2 \in {File("a", e, <<>>) : e \in Exts} \ {path}
    /\ disk = [f \in Files |->
                 IF f \in {path, path2} THEN Content("image", 25, FALSE, 70, 56)
                 ELSE Absent]
    /\ disk0 = disk
    /\ pc = "start"
    /\ pc2 = "start"
    /\ outcome = "none"
    /\ init_s = 0
    /\ img = NoImg
    /\ is_resized = FALSE
    /\ curr_img = NoImg
    /\ attempt = 0
    /\ fs = 0
    /\ ok = FALSE
    /\ enc = "unset"
    /\ sr_attempt = 0
    /\ SearchIdle
    /\ BatchIdle
    /\ rm_failed = 0
    /\ q_small = 0 /\ q_fit = 0 /\ q_near = 0

NextPair ==
    \/ NextJob
    \/ job2_open
    \/ job2_encode
    \/ job2_remove_dst
    \/ job2_move
    \/ job2_delete_original
    \/ job2_cleanup

SpecPair == InitPair /\ [][NextPair]_vars

(***************************************************************************)
(* SpecMono: one call of _binary_compress, as in SpecSearch, for every     *)
(* encoder "mono": q_fit is the greatest quality whose size is within the  *)
(* target (MIN_Q - 1: none in the range), q_small <= q_fit <= q_near.      *)
(***************************************************************************)
InitMono ==
    /\ cfg \in [target_size_kb : Targets, backup : {FALSE}, auto_resize : {FALSE},
                max_dimension : {0}]
    /\ path = File("a", "jpg", <<>>)
    /\ curr_img = [w |-> 70, h |-> 56]
    /\ img = curr_img
    /\ init_s \in {s \in InitSizes : s > cfg.target_size_kb}
    /\ disk = [f \in Files |->
                 IF f = path THEN Content("image", init_s, FALSE, img.w, img.h)
                 ELSE Absent]
    /\ disk0 = disk
    /\ pc = "bc_loop"
    /\ outcome = "none"
    /\ is_resized = FALSE
    /\ attempt = 1
    /\ fs = 0
    /\ ok = FALSE
    /\ enc = "mono"
    /\ sr_attempt = 0
    /\ low = MIN_Q /\ high = MAX_Q /\ best_q = MAX_Q /\ found_size = Inf
    /\ ceiling_kb \in {init_s, Inf}
    /\ enc_q = 0
    /\ BatchIdle
    /\ rm_failed = 0
    /\ q_fit \in (MIN_Q - 1)..MAX_Q
    /\ q_small \in (MIN_Q - 1)..q_fit
    /\ q_near \in {q_fit, MAX_Q}
    /\ path2 = File("a", "jpg", <<>>) /\ pc2 = "idle"

SpecMono == InitMono /\ [][NextSearch]_vars

(***************************************************************************)
(* The batch driver: start_work, thread_pool_run and wrapper,              *)
(* lines 418-505. Futures are numbered 1..image_list in submission order.  *)
(***************************************************************************)
\* the ways process_single_image returns (it returns None on each of them)
JobOutcomes == {"perm_fail", "read_fail", "open_fail", "exception", "skip",
                "replace_fail", "replaced"}

JobIdle ==
    /\ cfg = [target_size_kb |-> 20, backup |-> FALSE, auto_resize |-> FALSE,
              max_dimension |-> 0]
    /\ path = File("a", "jpg", <<>>)
    /\ disk = [f \in Files |-> Absent]
    /\ disk0 = disk
    /\ pc = "idle" /\ outcome = "none" /\ init_s = 0 /\ img = NoImg
    /\ is_resized = FALSE /\ curr_img = NoImg /\ attempt = 0 /\ fs = 0
    /\ ok = FALSE /\ enc = "unset" /\ sr_attempt = 0

Paths == 1..image_list

\* a pool whose worker is lost when the call it runs raises
InWorker_bug ==
    {j \in Paths : job[j] \in {"running", "returned", "read", "raised"}
                       \/ result[j] = "raised"}

\* futures whose wrapper is being executed by a worker thread
InWorker == {j \in Paths : job[j] \in {"running", "returned", "read", "raised"}}

\* a pool that starts a thread for every submitted call
SlotFree_bug == TRUE

\* line 464: ThreadPoolExecutor(max_workers) has at most max_workers threads
SlotFree == Cardinality(InWorker) < max_workers

\* lines 418-450: the parameters pass validation, the counters are reset
\* and the thread running thread_pool_run is started
start_work ==
    /\ mpc = "idle"
    /\ image_list > 0
    /\ ~running
    /\ max_workers > 0 /\ max_workers <= 16
    /\ running' = TRUE
    /\ processed_count' = 0
    /\ failed_count' = 0
    /\ mpc' = "submit"
    /\ UNCHANGED <<image_list, max_workers, completed, submitted, job, reg, result,
                   timedout, success, failed, jobVars, searchVars, sr_attempt, auxVars>>

\* lines 465-471: pool.submit for every path, then completed = 0
submit ==
    /\ mpc = "submit"
    /\ IF submitted < image_list
       THEN /\ submitted' = submitted + 1
            /\ job' = [job EXCEPT ![submitted + 1] = "queued"]
            /\ UNCHANGED <<mpc, completed>>
       ELSE /\ mpc' = "monitor"
            /\ completed' = 0
            /\ UNCHANGED <<submitted, job>>
    /\ UNCHANGED <<image_list, max_workers, running, processed_count, failed_count,
                   reg, result, timedout, success, failed, jobVars, searchVars, sr_attempt, auxVars>>

\* line 464: ThreadPoolExecutor(max_workers): a free worker takes the
\* oldest queued call
worker_start(j) ==
    /\ job[j] = "queued"
    /\ \A k \in Paths : k < j => job[k] # "queued"
    /\ SlotFree
    /\ job' = [job EXCEPT ![j] = "running"]
    /\ UNCHANGED <<image_list, max_workers, running, processed_count, failed_count, mpc,
                   completed, submitted, reg, result, timedout, success, failed,
                   jobVars, searchVars, sr_attempt, auxVars>>

\* line 502: core.process_single_image(p) returns, on any of its exit
\* paths, or an exception leaves its except/finally blocks (lines 218-236)
process_single_image(j) ==
    /\ job[j] = "running"
    /\ \/ /\ result' \in {[result EXCEPT ![j] = o] : o \in JobOutcomes}
          /\ job' = [job EXCEPT ![j] = "returned"]
       \/ /\ result' = [result EXCEPT ![j] = "raised"]
          /\ job' = [job EXCEPT ![j] = "raised"]
    /\ UNCHANGED <<image_list, max_workers, running, processed_count, failed_count, mpc,
                   completed, submitted, reg, timedout, success, failed,
                   jobVars, searchVars, sr_attempt, auxVars>>

\* line 503, first half of 'self.processed_count += 1': read the attribute
wrapper_load(j) ==
    /\ job[j] = "returned"
    /\ reg' = [reg EXCEPT ![j] = processed_count]
    /\ job' = [job EXCEPT ![j] = "read"]
    /\ UNCHANGED <<image_list, max_workers, running, processed_count, failed_count, mpc,
                   completed, submitted, result, timedout, success, failed,
                   jobVars, searchVars, sr_attempt, auxVars>>

\* line 503, second half: store the value read plus one
wrapper_store(j) ==
    /\ job[j] = "read"
    /\ processed_count' = reg[j] + 1
    /\ job' = [job EXCEPT ![j] = "done"]
    /\ UNCHANGED <<image_list, max_workers, running, failed_count, mpc,
                   completed, submitted, reg, result, timedout, success, failed,
                   jobVars, searchVars, sr_attempt, auxVars>>

\* lines 504-505: the exception is logged, nothing is counted
wrapper_except(j) ==
    /\ job[j] = "raised"
    /\ job' = [job EXCEPT ![j] = "done"]
    /\ UNCHANGED <<image_list, max_workers, running, processed_count, failed_count, mpc,
                   completed, submitted, reg, result, timedout, success, failed,
                   jobVars, searchVars, sr_attempt, auxVars>>

\* lines 472-474, 479-482: future.result returns for the next future in
\* submission order (wrapper never lets an exception out)
result_returns ==
    /\ mpc = "monitor"
    /\ completed < image_list
    /\ job[completed + 1] = "done"
    /\ completed' = completed + 1
    /\ UNCHANGED <<image_list, max_workers, running, processed_count, failed_count, mpc,
                   submitted, job, reg, result, timedout, success, failed,
                   jobVars, searchVars, sr_attempt, auxVars>>

\* lines 474-482: the future is not done 30 s after the wait began;
\* the TimeoutError is logged and failed_count incremented
result_timeout ==
    /\ mpc = "monitor"
    /\ completed < image_list
    /\ job[completed + 1] # "done"
    /\ failed_count' = failed_count + 1
    /\ timedout' = [timedout EXCEPT ![completed + 1] = TRUE]
    /\ completed' = completed + 1
    /\ UNCHANGED <<image_list, max_workers, running, processed_count, mpc,
                   submitted, job, reg, result, success, failed,
                   jobVars, searchVars, sr_attempt, auxVars>>

\* line 464, leaving the with block: shutdown(wait=True) returns when
\* every submitted call has finished
pool_shutdown ==
    /\ mpc = "monitor"
    /\ completed = image_list
    /\ \A j \in Paths : job[j] = "done"
    /\ mpc' = "summary"
    /\ UNCHANGED <<image_list, max_workers, running, processed_count, failed_count,
                   completed, submitted, job, reg, result, timedout, success, failed,
                   jobVars, searchVars, sr_attempt, auxVars>>

\* the failure count taken from the failed_count counter
FailedInSummary_bug == failed_count

\* line 487
FailedInSummary == image_list - processed_count

\* lines 485-497: the final summary
summary ==
    /\ mpc = "summary"
    /\ success' = processed_count
    /\ failed' = FailedInSummary
    /\ running' = FALSE
    /\ mpc' = "done"
    /\ UNCHANGED <<image_list, max_workers, processed_count, failed_count,
                   completed, submitted, job, reg, result, timedout,
                   jobVars, searchVars, sr_attempt, auxVars>>

\* ImageCompressorUI.__init__ (lines 247-258) and a loaded image list
Init ==
    /\ image_list \in 1..MaxPaths
    /\ max_workers \in 1..MaxWorkers
    /\ running = FALSE
    /\ processed_count = 0
    /\ failed_count = 0
    /\ mpc = "idle"
    /\ completed = 0
    /\ submitted = 0
    /\ job = [j \in Paths |-> "new"]
    /\ reg = [j \in Paths |-> 0]
    /\ result = [j \in Paths |-> "none"]
    /\ timedout = [j \in Paths |-> FALSE]
    /\ success = 0
    /\ failed = 0
    /\ JobIdle
    /\ SearchIdle
    /\ AuxIdle

Next ==
    \/ start_work
    \/ submit
    \/ \E j \in Paths : worker_start(j)
    \/ \E j \in Paths : process_single_image(j)
    \/ \E j \in Paths : wrapper_load(j)
    \/ \E j \in Paths : wrapper_store(j)
    \/ \E j \in Paths : wrapper_except(j)
    \/ result_returns
    \/ result_timeout
    \/ pool_shutdown
    \/ summary

Spec == Init /\ [][Next]_vars

(***************************************************************************)
(* SpecLive: the batch driver with the scheduling of its threads: as long  *)
(* as a thread of the batch can take a step, one of them does. The thread  *)
(* of thread_pool_run is never blocked for good (future.result returns or  *)
(* times out after 30 s), and a worker always finishes the call it runs:   *)
(* every loop of process_single_image is bounded (lines 87, 171, 40, 204,  *)
(* 227).                                                                   *)
(***************************************************************************)
MainStep == submit \/ result_returns \/ result_timeout \/ pool_shutdown \/ summary

WorkerStep(j) ==
    \/ worker_start(j)
    \/ process_single_image(j)
    \/ wrapper_load(j)
    \/ wrapper_store(j)
    \/ wrapper_except(j)

BatchStep == MainStep \/ \E j \in Paths : WorkerStep(j)

SpecLive == Init /\ [][Next]_vars /\ WF_vars(BatchStep)

(***************************************************************************)
(* SpecStop: the batch driver and the window's close handler.              *)
(***************************************************************************)
\* lines 507-514: the user closes the window during a batch and confirms;
\* self.running = False, root.quit(). The threads of the batch are not
\* told: thread_pool_run and wrapper never read self.running, and the
\* calls already submitted stay in the pool's queue.
on_exit ==
    /\ running
    /\ running' = FALSE
    /\ UNCHANGED <<image_list, max_workers, processed_count, failed_count, mpc,
                   completed, submitted, job, reg, result, timedout, success, failed,
                   jobVars, searchVars, sr_attempt, auxVars>>

NextStop ==
    \/ Next
    \/ on_exit

SpecStop == Init /\ [][NextStop]_vars

(***************************************************************************)
(* Properties of the batch driver (specification Spec)                     *)
(***************************************************************************)
\* futures whose wrapper has executed 'self.processed_count += 1'
Counted == {j \in Paths : job[j] = "done" /\ result[j] \in JobOutcomes}

\* C2: the success counter reflects exactly one update per job: when k
\* jobs have run their counting step, processed_count equals k.
C2_NoLostUpdate == processed_count = Cardinality(Counted)

\* exit paths of a job that are failures
FailureOutcomes == {"perm_fail", "read_fail", "open_fail", "replace_fail", "exception"}

FailedJobs == {j \in Paths : result[j] \in FailureOutcomes}

\* C3: in the final summary every job that ended in a permission error, an
\* unreadable or undecodable file, a failed replacement or a caught
\* exception is counted in the failure count and not in the success count.
C3_FailuresReported ==
    mpc = "done" =>
        /\ failed >= Cardinality(FailedJobs)
        /\ success <= image_list - Cardinality(FailedJobs)

\* C4: the success count and the failure count of the final summary sum
\* to the number of input paths, for every worker count and every
\* completion order.
C4_CountsSumToN == mpc = "done" => success + failed = image_list

\* C4 witness: a finished batch of two paths run by two workers in which a
\* wait timed out, one job was counted and one was not.
C4_Witness ==
    /\ mpc = "done" /\ image_list = 2 /\ max_workers = 2
    /\ success = 1 /\ failed = 1
    /\ \E j \in Paths : timedout[j]

TimedOut == {j \in Paths : timedout[j]}

\* C5: a job whose wait timed out is counted as failed in the final
\* statistics, and its later completion does not change the counts: the
\* timed-out jobs are in the failure count and not in the success count.
C5_TimeoutIsFailure ==
    mpc = "done" =>
        /\ failed >= Cardinality(TimedOut)
        /\ success <= image_list - Cardinality(TimedOut)

StopRequested == ~running /\ mpc \in {"submit", "monitor"}

\* C13: after the stop flag is flipped during a batch no job that had not
\* started begins execution; the jobs in flight run to completion.
C13_StopPreventsNewJobs ==
    [][StopRequested =>
         \A j \in Paths : job[j] \in {"new", "queued"} => job'[j] \in {"new", "queued"}]_vars

\* C17: the pool is bounded: at most max_workers jobs are in execution at
\* every moment, and a queued job starts only when fewer than max_workers
\* are in execution, so a path beyond the first max_workers waits for a
\* free slot.
C17_BoundedPool ==
    /\ [](Cardinality(InWorker) <= max_workers)
    /\ [][\A j \in Paths :
             (job[j] = "queued" /\ job'[j] = "running")
                 => Cardinality({k \in Paths : job[k] \in {"running", "returned", "read", "raised"}})
                        < max_workers]_vars

\* C17 witness: two paths and one worker: the second job is executing, and
\* it was started after the first had finished.
C17_Witness ==
    /\ image_list = 2 /\ max_workers = 1
    /\ job[1] = "done" /\ job[2] = "running"

\* C18: progress follows completion order: when a submitted job has
\* completed and is not yet reported, the monitor can report it without
\* waiting for an earlier-submitted job that is still running.
C18_ProgressFollowsCompletion ==
    (/\ mpc = "monitor" /\ completed < image_list
     /\ \E k \in Paths : k > completed /\ job[k] = "done")
        => job[completed + 1] = "done"

(***************************************************************************)
(* Properties of one job (specification SpecJob)                           *)
(***************************************************************************)
\* the content the job found at its input path
IsOriginal(c) == c.data \in {"image", "corrupt"}

\* C1: the original is removed only after the re-encoded file exists under
\* its final name: in no state is the original gone while the replacement
\* is not installed at the output path.
C1_OriginalOutlivesReplace ==
    (IsOriginal(disk0[path]) /\ ~IsOriginal(disk[path]))
        => disk[out_path].data = "enc"

\* the job's input is a valid JPEG within budget that the long-edge limit
\* does not resize
WithinBudgetJpeg ==
    /\ IsJpg(path)
    /\ disk0[path].data = "image"
    /\ disk0[path].size <= cfg.target_size_kb
    /\ ~(cfg.max_dimension > 0
         /\ Max(disk0[path].w, disk0[path].h) > cfg.max_dimension)

\* same file but for the read-only flag
SameContent(c, d) == [c EXCEPT !.ro = d.ro] = d

\* positions of Backup, CompressLoop, Replace and DeleteOriginal
WorkPcs == {"backup", "loop", "bc_loop", "after_bc", "replace", "sr_move", "delete"}

\* C6 as stated, for a job that takes the skip exit: for a JPEG within
\* budget that is not resized the job is a no-op: the content is unchanged,
\* no file is deleted, no backup and no output file is created, and Backup,
\* CompressLoop, Replace and DeleteOriginal are never entered.
C6_SkipDeletesNothing ==
    (WithinBudgetJpeg /\ outcome = "skip") =>
        /\ SameContent(disk[path], disk0[path])
        /\ \A f \in Files : disk0[f] # Absent => disk[f] # Absent
        /\ \A f \in Files : disk0[f] = Absent => disk[f] = Absent
        /\ pc \notin WorkPcs

\* C6 amended: as C6, except that a scratch file left at path + '.tmp'
\* may be removed by the cleanup; every other file is as the job found it.
C6_SkipIsNoOp ==
    WithinBudgetJpeg =>
        /\ SameContent(disk[path], disk0[path])
        /\ \A f \in Files \ {path, tmp_file} : disk[f] = disk0[f]
        /\ disk[tmp_file] \in {disk0[tmp_file], Absent}
        /\ pc \notin WorkPcs

\* C6 witness: a skipped job with backup enabled has terminated and has
\* removed a leftover scratch file.
C6_Witness ==
    /\ WithinBudgetJpeg /\ pc = "done" /\ outcome = "skip" /\ cfg.backup
    /\ disk0[tmp_file] # Absent /\ disk[tmp_file] = Absent

\* the job's permission check failed, or its input cannot be decoded
EarlyFailure == outcome = "perm_fail" \/ disk0[path].data = "corrupt"

\* C7 as stated: after a failed permission check or a failed decode the
\* job terminates with the filesystem as it found it: the original file is
\* left untouched, no output file is created or replaced and no backup file
\* is created.
C7_FilesystemAsFound ==
    (EarlyFailure /\ pc = "done") =>
        /\ disk[path] = disk0[path]
        /\ disk[out_path] = disk0[out_path]
        /\ disk[BakFile(path)] = disk0[BakFile(path)]

\* C7 amended: after a failed permission check or a failed decode the
\* original's content is untouched, no output file is created or replaced
\* and no backup is created; the only changes are that the read-only flag
\* of the original may have been cleared (before a failed decode) and a
\* leftover scratch file removed.
C7_EarlyFailureFrame ==
    EarlyFailure =>
        /\ SameContent(disk[path], disk0[path])
        /\ (outcome = "perm_fail" => disk[path] = disk0[path])
        /\ \A f \in Files \ {path, tmp_file} : disk[f] = disk0[f]
        /\ disk[tmp_file] \in {disk0[tmp_file], Absent}

\* C7 witness: a read-only undecodable file, with backup enabled and an
\* output file already present: the job ended on the decode error after
\* the permission check had cleared the flag.
C7_Witness ==
    /\ pc = "done" /\ outcome = "open_fail" /\ cfg.backup
    /\ disk0[path].ro /\ ~disk[path].ro
    /\ path # out_path /\ disk0[out_path] # Absent

\* C8: for a JPEG source that was not resized the search ceiling is the
\* original's size and the installed result is never larger than the
\* original.
C8_NeverLargerThanOriginal ==
    (is_jpg /\ ~is_resized /\ outcome = "replaced" /\ disk[out_path].data = "enc")
        => /\ ceiling_kb = init_s
           /\ disk[out_path].size <= init_s

\* C10: every image produced by a downscale step of the adaptive loop has
\* width and height of at least MIN_DIMENSION, and when a new dimension
\* would fall below it the loop stops without shrinking.
C10_NeverBelowMinimum ==
    /\ []((curr_img # NoImg /\ curr_img # img)
            => (curr_img.w >= MIN_DIMENSION /\ curr_img.h >= MIN_DIMENSION))
    /\ [][(pc = "after_bc"
            /\ ((curr_img.w * 9) \div 10 < MIN_DIMENSION
                \/ (curr_img.h * 9) \div 10 < MIN_DIMENSION))
           => (curr_img' = curr_img /\ pc' = "replace")]_vars

\* C10 witness: after at least one downscale the loop stopped, with the
\* budget not met and attempts left, because the next image would be too
\* small.
C10_Witness ==
    /\ pc = "replace" /\ cfg.auto_resize /\ ~ok /\ attempt < MAX_ATTEMPTS
    /\ curr_img # img
    /\ curr_img.w >= MIN_DIMENSION /\ curr_img.h >= MIN_DIMENSION

\* C14: with backup enabled the backup file is created once and never
\* overwritten: over any sequence of runs on the same path an existing
\* backup is left unchanged; a backup is created only by the backup step,
\* while every file is still as the run found it, and a completed copy
\* holds the bytes of the run's original; a failed copy does not stop the
\* job, which goes on to the compression loop.
C14_BackupOnceNeverOverwritten ==
    /\ [][Exists(BakFile(path)) => disk'[BakFile(path)] = disk[BakFile(path)]]_vars
    /\ [][(~Exists(BakFile(path)) /\ disk'[BakFile(path)] # Absent)
            => /\ pc = "backup"
               /\ SameContent(disk[path], disk0[path])
               /\ \A f \in Files \ {path} : disk[f] = disk0[f]
               /\ (disk'[BakFile(path)].data # "partial"
                     => SameContent(disk'[BakFile(path)], disk0[path]))]_vars
    /\ [][pc = "backup" => pc' = "loop"]_vars

\* C14 witness: a second run on a path the first run re-encoded has
\* installed its result, and the backup still holds the image the first
\* run found.
C14_Witness ==
    /\ pc = "done" /\ outcome = "replaced"
    /\ disk0[path].data = "enc"
    /\ disk[BakFile(path)].data = "image"
    /\ disk[path].data = "enc"

\* the adaptive loop has been left and its result is about to be installed
Installing == pc \in {"replace", "sr_move"}

\* C15: for every job that installs an output file, the installed file's
\* size is at most target x 1.05, or auto-resize is disabled, or the loop
\* stopped at the minimum dimension, or all 5 attempts were used; in each
\* case the file the loop left at the scratch path is the one installed
\* and the job ends on its success path.
C15_WithinToleranceOrFallback ==
    /\ [](Installing =>
            \/ /\ ok
               /\ disk[tmp_file].data = "enc"
               /\ disk[tmp_file].size * 100 <= cfg.target_size_kb * 105
            \/ ~cfg.auto_resize
            \/ (curr_img.w * 9) \div 10 < MIN_DIMENSION
            \/ (curr_img.h * 9) \div 10 < MIN_DIMENSION
            \/ attempt = MAX_ATTEMPTS)
    /\ [][(pc = "sr_move" /\ pc' = "delete")
            => (disk'[out_path] = disk[tmp_file] /\ outcome' = "replaced")]_vars
    /\ [](outcome = "replaced" => pc \in {"delete", "cleanup", "done"})

\* C15 witness: with auto-resize enabled the loop shrank the image once,
\* stopped at the minimum dimension without meeting the budget, and the
\* job installed that last result, above the tolerance, and terminated.
C15_Witness ==
    /\ pc = "done" /\ outcome = "replaced" /\ cfg.auto_resize /\ ~ok
    /\ curr_img # img
    /\ disk[out_path].data = "enc"
    /\ disk[out_path].size * 100 > cfg.target_size_kb * 105

\* the exit paths of a job: early return on a permission, read or decode
\* failure, skip, success, replace failure, caught exception
ExitPaths == {"perm_fail", "read_fail", "open_fail", "skip", "replaced",
              "replace_fail", "exception"}

\* C11: cleanup runs on every exit path and is the job's last step: a job
\* terminates only from the cleanup, having left the try block on one of
\* its exit paths, and when it has terminated and the removal of the
\* scratch file did not fail on all 3 tries, no scratch file is on disk.
C11_CleanupOnEveryExit ==
    /\ []((pc = "done" /\ rm_failed < CLEANUP_TRIES) => ~Exists(tmp_file))
    /\ [](pc \in {"cleanup", "done"} => outcome \in ExitPaths)
    /\ [][(pc' = "done" /\ pc # "done") => pc = "cleanup"]_vars

\* C11 witness: the replace failed on every try, the first removal of the
\* scratch file failed too, a later one succeeded and the job terminated.
C11_Witness ==
    /\ pc = "done" /\ outcome = "replace_fail"
    /\ rm_failed > 0 /\ rm_failed < CLEANUP_TRIES
    /\ ~Exists(tmp_file)

(***************************************************************************)
(* Properties of the adaptive loop (specification SpecLoop)                *)
(***************************************************************************)
\* C21: the adaptive loop always terminates and calls _binary_compress at
\* least once and at most 5 times per job, exactly once when auto-resize
\* is disabled; after an attempt that met the budget, or one whose next
\* image would be below the minimum dimension, no further call is made;
\* every call terminates, the interval [low, high] shrinking strictly at
\* every encode of its loop.
C21_LoopTerminates ==
    /\ (pc = "loop") ~> (pc = "replace")
    /\ (pc = "bc_loop") ~> (pc = "after_bc")
    /\ [](pc \in {"replace", "sr_move"} =>
            /\ attempt >= 1 /\ attempt <= 5
            /\ (~cfg.auto_resize => attempt = 1))
    /\ [](pc \in {"loop", "bc_loop", "after_bc"} => attempt <= 5)
    /\ [][(pc = "after_bc"
            /\ (\/ ok
                \/ (curr_img.w * 9) \div 10 < MIN_DIMENSION
                \/ (curr_img.h * 9) \div 10 < MIN_DIMENSION))
           => pc' = "replace"]_vars
    /\ [][(pc = "bc_loop" /\ pc' = "bc_loop" /\ enc_q' # enc_q)
           => (high' - low' < high - low /\ high' - low' >= -1)]_vars

\* C21 witness: with auto-resize enabled the budget was never met, the
\* image was shrunk four times and the loop ended after its fifth call.
C21_Witness ==
    /\ pc = "replace" /\ cfg.auto_resize /\ ~ok
    /\ attempt = MAX_ATTEMPTS
    /\ curr_img # img
    /\ (curr_img.w * 9) \div 10 >= MIN_DIMENSION
    /\ (curr_img.h * 9) \div 10 >= MIN_DIMENSION

(***************************************************************************)
(* Properties of two concurrent jobs (specification SpecPair)              *)
(***************************************************************************)
\* the first job's input, scratch file and installed output
Job1Files ==
    {path, tmp_file} \cup (IF outcome = "replaced" THEN {out_path} ELSE {})

\* the second job's input, scratch file and installed output
Job2Files ==
    {path2, TmpFile(path2)}
        \cup (IF pc2 \in {"delete", "cleanup", "done"} THEN {OutPath(path2)} ELSE {})

\* C20: two jobs on two different valid paths never interfere through the
\* filesystem: their scratch paths differ, and no step of one job removes,
\* replaces or overwrites the other job's input, scratch file or installed
\* output, also for inputs that differ only in extension.
C20_NoInterference ==
    /\ [](path # path2 => tmp_file # TmpFile(path2))
    /\ [][/\ (pc2' = pc2 => \A f \in Job2Files : disk'[f] = disk[f])
          /\ (pc2' # pc2 => \A f \in Job1Files : disk'[f] = disk[f])]_vars

(***************************************************************************)
(* Properties of _binary_compress (specification SpecSearch)               *)
(***************************************************************************)
\* C9: every quality the search encodes at, at a midpoint or in the final
\* encode, lies within [MIN_Q, 95].
C9_QualityInRange == enc_q # 0 => (enc_q >= MIN_Q /\ enc_q <= MAX_Q)

(***************************************************************************)
(* Properties of _binary_compress for a deterministic non-decreasing       *)
(* encoder (specification SpecMono)                                        *)
(***************************************************************************)
\* C16: when a midpoint encode was strictly below the ceiling, the size
\* returned and the file left at the scratch path are those of the tracked
\* best candidate, the smallest size seen strictly below the ceiling.
C16_ReturnsBestCandidate ==
    (pc = "after_bc" /\ found_size # Inf) =>
        /\ fs = found_size
        /\ disk[tmp_file].size = found_size

\* the greatest quality in MIN_Q..q whose encoded size is at most the
\* target, or the floor when there is none
RECURSIVE GreatestFitUpTo(_)
GreatestFitUpTo(q) ==
    IF q < MIN_Q THEN MIN_Q
    ELSE IF MonoSize(q) <= cfg.target_size_kb THEN q
    ELSE GreatestFitUpTo(q - 1)

GreatestFit == GreatestFitUpTo(MAX_Q)

\* C19: for an encoder that never fails and whose size is non-decreasing
\* in quality, the final encode is made at the greatest quality in
\* [10, 95] whose size is at most the target, or at 10 when there is none;
\* the call returns that encode's size and a flag that is true exactly
\* when the size is at most target x 1.05.
C19_FinalAtGreatestFit ==
    pc = "after_bc" =>
        /\ enc_q = GreatestFit
        /\ fs = MonoSize(GreatestFit)
        /\ disk[tmp_file] = Content("enc", fs, FALSE, curr_img.w, curr_img.h)
        /\ ok = (fs * 100 <= cfg.target_size_kb * 105)

\* C19 witness: the search has returned for an encoder that meets the
\* target up to a quality strictly inside the range, which no midpoint of
\* the first two rounds hits.
C19_Witness ==
    /\ pc = "after_bc" /\ enc = "mono"
    /\ q_fit = 37 /\ enc_q = 37 /\ fs = 20 /\ ok

\* C9 witness: no midpoint met the target, the upper bound ended below the
\* floor and the final encode was made at the floor.
C9_Witness == pc = "after_bc" /\ high < MIN_Q /\ enc_q = MIN_Q

====
